---- MODULE Spec2Model ----
(***************************************************************************)
(* TomatoNews: the daily pipeline of scripts/main.py (run_pipeline) with   *)
(* the feed loader (rss_fetcher.NewsLoader), the analyzer                  *)
(* (llm_analyzer.ContentProcessor), the page builder                       *)
(* (html_generator.PageBuilder) and the notifier (notifier.AlertManager).  *)
(*                                                                         *)
(* Conventions.  A Python string is a sequence of one-character strings.   *)
(* An optional attribute or dictionary key is a sequence of length 0       *)
(* (absent) or 1 (present, holding the value).  A calendar date is a       *)
(* record [y, m, d].  A date string is a record [fmt, y, m, d]: fmt "iso"  *)
(* is zero padded YYYY-MM-DD, "loose" is a string strptime("%Y-%m-%d")     *)
(* accepts although month or day is not zero padded, "bad" is a string     *)
(* strptime rejects.                                                       *)
(***************************************************************************)
EXTENDS Integers, Sequences, FiniteSets, TLC

\* ------------------------------------------------------------------ bounds
\* Longest feed of the loader specification (SpecFetch).
MaxFeedLen == 2
\* Longest feed of the pipeline specification (Spec).
MaxPipeFeed == 1
\* Most calls of sync_index in a row (SpecSync).
MaxSyncs == 2
\* Most digits of the year of a url (SpecUrl).
MaxYearLen == 5
\* Most notify calls in a row (SpecNotify).
\* Most pieces of a text that is escaped and unescaped (SpecEscape).
MaxPieces == 3

MaxNotifyCalls == 2

\* ------------------------------------------------------- program constants
\* rss_fetcher.py: f"20{y}" puts a two-digit year into the century 2000.
Century == 2000

\* ------------------------------------------------------------- basic values
Absent == <<>>
Some(v) == <<v>>
IsPresent(o) == Len(o) > 0
\* dict.get(key, default) on an optional key.
Get(o, default) == IF IsPresent(o) THEN o[1] ELSE default

EmptyStr == <<>>

\* Calendar days the inputs are drawn from.
Day1 == [y |-> 2024, m |-> 3, d |-> 10]
Day2 == [y |-> 2024, m |-> 3, d |-> 11]
Days == {Day1, Day2}

DateStr(fmt, day) == [fmt |-> fmt, y |-> day.y, m |-> day.m, d |-> day.d]
DayOf(ds) == [y |-> ds.y, m |-> ds.m, d |-> ds.d]

\* A link is a sequence of path segments.  A segment is free text, or an
\* "/issues/<year>-<mm>-<dd>-" group with the year written in two digits
\* ("yy", y in 0..99) or in four ("yyyy").
TextSeg == [form |-> "text", y |-> 0, m |-> 0, d |-> 0]
IssueSeg(form, y, m, d) == [form |-> form, y |-> y, m |-> m, d |-> d]

\* -------------------------------------------------- rss_fetcher.NewsLoader
\* re.search(p, url) for one pattern: the leftmost segment of that form,
\* 0 when the pattern does not occur.
RECURSIVE SearchFrom(_, _, _)
SearchFrom(url, form, i) ==
    IF i > Len(url) THEN 0
    ELSE IF url[i].form = form THEN i
    ELSE SearchFrom(url, form, i + 1)

ReSearch(url, form) == SearchFrom(url, form, 1)

\* _parse_url_date: the two-digit pattern is tried first over the whole
\* url, then the four-digit one; the result is the string
\* f"{full_y}-{m}-{d}", always in the zero padded form, or None (Absent).
ParseUrlDate(url) ==
    IF ReSearch(url, "yy") > 0
    THEN LET g == url[ReSearch(url, "yy")]
         IN  Some([fmt |-> "iso", y |-> Century + g.y, m |-> g.m, d |-> g.d])
    ELSE IF ReSearch(url, "yyyy") > 0
    THEN LET g == url[ReSearch(url, "yyyy")]
         IN  Some([fmt |-> "iso", y |-> g.y, m |-> g.m, d |-> g.d])
    ELSE Absent

\* _compare_dates: d1.date() == d2.date().
CompareDates(d1, d2) == d1 = d2

\* str.replace(old, new) on a string, scanning left to right without
\* rescanning what it has put in.
IsPrefixAt(s, i, old) ==
    /\ i + Len(old) - 1 <= Len(s)
    /\ \A k \in 1..Len(old) : s[i + k - 1] = old[k]

RECURSIVE ReplaceFrom(_, _, _, _)
ReplaceFrom(s, i, old, new) ==
    IF i > Len(s) THEN <<>>
    ELSE IF IsPrefixAt(s, i, old)
    THEN new \o ReplaceFrom(s, i + Len(old), old, new)
    ELSE <<s[i]>> \o ReplaceFrom(s, i + 1, old, new)

Replace(s, old, new) == ReplaceFrom(s, 1, old, new)

EntLt == <<"&", "l", "t", ";">>
EntGt == <<"&", "g", "t", ";">>
EntAmp == <<"&", "a", "m", "p", ";">>

\* content.replace('&lt;', '<').replace('&gt;', '>').replace('&amp;', '&')
\* Faulty variant: &amp; is decoded first, so its result is decoded again.
UnescapeAmpFirst(s) ==
    Replace(Replace(Replace(s, EntAmp, <<"&">>), EntLt, <<"<">>), EntGt, <<">">>)

Unescape(s) ==
    Replace(Replace(Replace(s, EntLt, <<"<">>), EntGt, <<">">>), EntAmp, <<"&">>)

\* _parse_url_date on the characters of the url.  A pattern
\* lit(\d{n})-(\d{2})-(\d{2})- matches at p when the literal, n digits, a
\* dash, two digits, a dash, two digits and a dash follow one another from
\* p on; re.search returns the leftmost match.
Digits == {"0", "1", "2", "3", "4", "5", "6", "7", "8", "9"}
IssuesLit == <<"/", "i", "s", "s", "u", "e", "s", "/">>
AreDigits(url, p, n) == p + n - 1 <= Len(url) /\ \A k \in p..(p + n - 1) : url[k] \in Digits
IsDash(url, p) == p <= Len(url) /\ url[p] = "-"

MatchAt(url, lit, n, p) ==
    LET q == p + Len(lit)
    IN  /\ IsPrefixAt(url, p, lit)
        /\ AreDigits(url, q, n) /\ IsDash(url, q + n)
        /\ AreDigits(url, q + n + 1, 2) /\ IsDash(url, q + n + 3)
        /\ AreDigits(url, q + n + 4, 2) /\ IsDash(url, q + n + 6)

RECURSIVE RegexFrom(_, _, _, _)
RegexFrom(url, lit, n, p) ==
    IF p > Len(url) THEN 0
    ELSE IF MatchAt(url, lit, n, p) THEN p
    ELSE RegexFrom(url, lit, n, p + 1)

\* found.groups() of the match at p, put together as f"{full_y}-{m}-{d}".
UrlDateAt(url, lit, n, p) ==
    LET q == p + Len(lit)
        y == SubSeq(url, q, q + n - 1)
        m == SubSeq(url, q + n + 1, q + n + 2)
        d == SubSeq(url, q + n + 4, q + n + 5)
        full_y == IF Len(y) = 2 THEN <<"2", "0">> \o y ELSE y
    IN  full_y \o <<"-">> \o m \o <<"-">> \o d

\* Faulty variant: the patterns without their /issues/ prefix.
ParseUrlDateNoPrefix(url) ==
    IF RegexFrom(url, <<>>, 2, 1) > 0
    THEN Some(UrlDateAt(url, <<>>, 2, RegexFrom(url, <<>>, 2, 1)))
    ELSE IF RegexFrom(url, <<>>, 4, 1) > 0
    THEN Some(UrlDateAt(url, <<>>, 4, RegexFrom(url, <<>>, 4, 1)))
    ELSE Absent

ParseUrlDateText(url) ==
    IF RegexFrom(url, IssuesLit, 2, 1) > 0
    THEN Some(UrlDateAt(url, IssuesLit, 2, RegexFrom(url, IssuesLit, 2, 1)))
    ELSE IF RegexFrom(url, IssuesLit, 4, 1) > 0
    THEN Some(UrlDateAt(url, IssuesLit, 4, RegexFrom(url, IssuesLit, 4, 1)))
    ELSE Absent

\* Faulty variant: the timestamp of the top entry is looked at before its link.
GetLatestTimestampStampFirst(entries) ==
    IF entries = <<>> THEN Absent
    ELSE LET top_item == entries[1]
         IN  IF IsPresent(top_item.ts) THEN Some(DateStr("iso", top_item.ts[1]))
             ELSE IF IsPresent(top_item.link) THEN ParseUrlDate(top_item.link[1])
             ELSE Absent

\* get_latest_timestamp(feed_data): only feed_data.entries[0] is looked at;
\* ts.strftime("%Y-%m-%d") is the zero padded form.
GetLatestTimestamp(entries) ==
    IF entries = <<>> THEN Absent
    ELSE LET top_item == entries[1]
         IN  IF IsPresent(top_item.link) /\ IsPresent(ParseUrlDate(top_item.link[1]))
             THEN ParseUrlDate(top_item.link[1])
             ELSE IF IsPresent(top_item.ts) THEN Some(DateStr("iso", top_item.ts[1]))
             ELSE Absent

\* The characters of a date string f"{full_y}-{m}-{d}": four digits, two
\* and two.
DigitChar(n) == <<"0", "1", "2", "3", "4", "5", "6", "7", "8", "9">>[n + 1]
TwoDigits(n) == <<DigitChar(n \div 10), DigitChar(n % 10)>>
DateChars(ds) ==
    TwoDigits(ds.y \div 100) \o TwoDigits(ds.y % 100) \o <<"-">> \o TwoDigits(ds.m)
        \o <<"-">> \o TwoDigits(ds.d)

\* Python's order of str: by the code points of the first characters that
\* differ, a prefix before the longer string.
CodePoint(c) == IF c = "-" THEN 45 ELSE 48 + (CHOOSE n \in 0..9 : DigitChar(n) = c)
RECURSIVE StrLess(_, _)
StrLess(a, b) ==
    IF b = <<>> THEN FALSE
    ELSE IF a = <<>> THEN TRUE
    ELSE IF Head(a) # Head(b) THEN CodePoint(Head(a)) < CodePoint(Head(b))
    ELSE StrLess(Tail(a), Tail(b))

\* Faulty variant: the timestamps are collected when an entry has no link date.
RECURSIVE FoundDatesWithStamps(_)
FoundDatesWithStamps(entries) ==
    IF entries = <<>> THEN <<>>
    ELSE (IF IsPresent(Head(entries).link) /\ IsPresent(ParseUrlDate(Head(entries).link[1]))
          THEN <<ParseUrlDate(Head(entries).link[1])[1]>>
          ELSE IF IsPresent(Head(entries).ts) THEN <<DateStr("iso", Head(entries).ts[1])>>
          ELSE <<>>)
         \o FoundDatesWithStamps(Tail(entries))

\* found_dates of get_available_range, in feed order.
RECURSIVE FoundDates(_)
FoundDates(entries) ==
    IF entries = <<>> THEN <<>>
    ELSE (IF IsPresent(Head(entries).link) /\ IsPresent(ParseUrlDate(Head(entries).link[1]))
          THEN <<ParseUrlDate(Head(entries).link[1])[1]>> ELSE <<>>)
         \o FoundDates(Tail(entries))

\* min(found_dates), max(found_dates): the least and the greatest string.
MinStr(ds) == CHOOSE x \in {ds[k] : k \in DOMAIN ds} :
                 \A k \in DOMAIN ds : ~StrLess(DateChars(ds[k]), DateChars(x))
MaxStr(ds) == CHOOSE x \in {ds[k] : k \in DOMAIN ds} :
                 \A k \in DOMAIN ds : ~StrLess(DateChars(x), DateChars(ds[k]))

\* get_available_range(feed_data): the pair returned.
GetAvailableRange(entries) ==
    IF FoundDates(entries) = <<>> THEN <<Absent, Absent>>
    ELSE <<Some(MinStr(FoundDates(entries))), Some(MaxStr(FoundDates(entries)))>>

\* Faulty variant: the summary is looked at before the structured body.
FormatContentSummaryFirst(e) ==
    IF IsPresent(e.summary) THEN e.summary[1]
    ELSE IF IsPresent(e.content) /\ Len(e.content[1]) > 0
    THEN Get(e.content[1][1], EmptyStr)
    ELSE Get(e.description, EmptyStr)

\* _format_item.  An entry is a record of optional attributes:
\*   title, link, id, guid, description, summary, published, updated:
\*     optional values; content: optional list of dictionaries, each an
\*     optional 'value'; ts: the UTC date of published_parsed, optional.
FormatContent(e) ==
    IF IsPresent(e.content) /\ Len(e.content[1]) > 0
    THEN Get(e.content[1][1], EmptyStr)
    ELSE IF IsPresent(e.summary) THEN e.summary[1]
    ELSE Get(e.description, EmptyStr)

FormatItem(e) ==
    [ title       |-> Get(e.title, EmptyStr),
      link        |-> Get(e.link, <<>>),
      guid        |-> Get(e.id, Get(e.guid, Get(e.link, <<>>))),
      description |-> Get(e.description, EmptyStr),
      content     |-> Unescape(FormatContent(e)),
      pubDate     |-> Get(e.published, Get(e.updated, EmptyStr)) ]

\* One entry of the loop of fetch_by_day: the timestamp rule, then the
\* link rule (extracted == date_str, a comparison of strings).
TsMatches(e, target) ==
    IsPresent(e.ts) /\ CompareDates(e.ts[1], DayOf(target))

\* Faulty variant: the link rule as the elif of the timestamp rule.
LinkMatchesElif(e, target) ==
    ~IsPresent(e.ts) /\ IsPresent(e.link) /\ ParseUrlDate(e.link[1]) = Some(target)

LinkMatches(e, target) ==
    IsPresent(e.link) /\ ParseUrlDate(e.link[1]) = Some(target)

EntryMatches(e, target) == TsMatches(e, target) \/ LinkMatches(e, target)

\* Faulty variant: one pass over the timestamps, then one over the links.
RECURSIVE ScanBy(_, _, _, _)
ScanBy(entries, target, i, rule) ==
    IF i > Len(entries) THEN 0
    ELSE IF (rule = "ts" /\ IsPresent(entries[i].ts)
                /\ CompareDates(entries[i].ts[1], DayOf(target)))
            \/ (rule = "link" /\ IsPresent(entries[i].link)
                /\ ParseUrlDate(entries[i].link[1]) = Some(target))
    THEN i
    ELSE ScanBy(entries, target, i + 1, rule)

ScanTimestampsFirst(entries, target, i) ==
    IF ScanBy(entries, target, i, "ts") > 0
    THEN ScanBy(entries, target, i, "ts")
    ELSE ScanBy(entries, target, i, "link")

\* The for loop of fetch_by_day from entry i on: the index of the entry
\* it returns, 0 when it falls off the end.
RECURSIVE ScanFrom(_, _, _)
ScanFrom(entries, target, i) ==
    IF i > Len(entries) THEN 0
    ELSE IF EntryMatches(entries[i], target) THEN i
    ELSE ScanFrom(entries, target, i + 1)

\* Faulty variant: the newest entry stands in when no entry matches.
FetchByDayLatest(target, entries) ==
    IF target.fmt = "bad"
    THEN [kind |-> "raise", idx |-> 0, item |-> <<>>]
    ELSE LET i == ScanFrom(entries, target, 1)
         IN  IF i = 0 /\ Len(entries) = 0
             THEN [kind |-> "none", idx |-> 0, item |-> <<>>]
             ELSE IF i = 0
             THEN [kind |-> "item", idx |-> 1, item |-> Some(FormatItem(entries[1]))]
             ELSE [kind |-> "item", idx |-> i, item |-> Some(FormatItem(entries[i]))]

\* fetch_by_day(date_str, feed_data) with feed_data given:
\*   [kind |-> "raise"]            ValueError, date_str is not a date
\*   [kind |-> "none"]             None
\*   [kind |-> "item", idx, item]  the record of entry idx
FetchByDay(target, entries) ==
    IF target.fmt = "bad"
    THEN [kind |-> "raise", idx |-> 0, item |-> <<>>]
    ELSE LET i == ScanFrom(entries, target, 1)
         IN  IF i = 0
             THEN [kind |-> "none", idx |-> 0, item |-> <<>>]
             ELSE [kind |-> "item", idx |-> i, item |-> Some(FormatItem(entries[i]))]

\* --------------------------------------------- llm_analyzer.ContentProcessor
\* A classification is the dictionary process_news returns:
\*   status, lang: strings; date: a date string; summary: list of strings;
\*   categories: list of dictionaries, each an optional 'items' list;
\*   reason: optional string.
\* An oracle reply is what chat.completions.create does:
\*   [kind |-> "raise"]      the request raises (timeout, transport, ...)
\*   [kind |-> "notjson"]    text json.loads rejects
\*   [kind |-> "nonobject"]  JSON text that is no object (a list, a number)
\*   [kind |-> "object"]     a JSON object, obj holding its optional keys
NoObj ==
    [status |-> Absent, date |-> Absent, lang |-> Absent,
     summary |-> Absent, categories |-> Absent, reason |-> Absent]

\* _generate_empty_state
GenerateEmptyState(date, msg, lang) ==
    [status |-> "empty", date |-> date, lang |-> lang, summary |-> <<>>,
     categories |-> <<>>, reason |-> Some(msg)]

\* Faulty variant: the fallback reports an empty day instead of a success.
FallbackAsEmpty(title, date) == GenerateEmptyState(date, "error", "en")

\* _create_emergency_fallback(data, date): data is the optional title.
CreateEmergencyFallback(title, date) ==
    [status |-> "success", date |-> date, lang |-> "en",
     summary |-> << <<"e", "r", "r">> >>,
     categories |-> << [items |-> Some(<< [title |-> Get(title, <<"U">>)] >>)] >>,
     reason |-> Absent]

\* _decode_ai_output(text, date): [raised, value].  json.JSONDecodeError is
\* caught here; a reply that is JSON but no object makes setdefault raise
\* AttributeError, which this function lets through.
DecodeAiOutput(reply, date) ==
    IF reply.kind = "notjson"
    THEN [raised |-> FALSE,
          value |-> CreateEmergencyFallback(Some(<<"P">>), date)]
    ELSE IF reply.kind = "nonobject"
    THEN [raised |-> TRUE, value |-> GenerateEmptyState(date, "", "")]
    ELSE [raised |-> FALSE,
          value |-> [status     |-> Get(reply.obj.status, "success"),
                     date       |-> Get(reply.obj.date, date),
                     lang       |-> Get(reply.obj.lang, "zh"),
                     summary    |-> Get(reply.obj.summary, <<>>),
                     categories |-> Get(reply.obj.categories, <<>>),
                     reason     |-> reply.obj.reason]]

\* Whether process_news reaches the oracle at all.
CallsOracle(raw) == raw.content # EmptyStr

\* process_news(raw_data, date_tag, language) for a record raw and the
\* oracle's reply: every exception of the request or of the decoding is
\* caught (except Exception) and answered by the emergency fallback.
ProcessNews(raw, date, lang, reply) ==
    IF ~CallsOracle(raw)
    THEN GenerateEmptyState(date, "No content provided", lang)
    ELSE IF reply.kind = "raise"
    THEN CreateEmergencyFallback(Some(raw.title), date)
    ELSE IF DecodeAiOutput(reply, date).raised
    THEN CreateEmergencyFallback(Some(raw.title), date)
    ELSE DecodeAiOutput(reply, date).value

\* ------------------------------------------------- notifier.AlertManager
\* _is_ready: all([host, sender, secret, recipient])
\* Faulty variant: the recipient is not looked at.
IsReadyNoRecipient(s) == s.host /\ s.sender /\ s.secret

IsReady(s) == s.host /\ s.sender /\ s.secret /\ s.recipient

\* _dispatch(subject, body): box is the list of SMTP transfers attempted so
\* far, sent tells whether this transfer goes through.
Dispatch(s, box, msg, sent) ==
    IF ~IsReady(s) THEN box
    ELSE Append(box, [kind |-> msg.kind, day |-> msg.day, count |-> msg.count,
                      text |-> msg.text, delivered |-> sent])

\* _sanitize: text.replace('&', '&amp;').replace('<', '&lt;').replace('>', '&gt;')
Sanitize(text) ==
    Replace(Replace(Replace(text, <<"&">>, EntAmp), <<"<">>, EntLt), <<">">>, EntGt)

\* What _dispatch returns: False when not ready or when the transfer raised.
DispatchReturns(s, sent) == IsReady(s) /\ sent

NotifySuccess(s, box, day, count, sent) ==
    Dispatch(s, box, [kind |-> "success", day |-> day, count |-> count, text |-> ""], sent)

NotifyEmpty(s, box, day, reason, sent) ==
    Dispatch(s, box, [kind |-> "empty", day |-> day, count |-> 0, text |-> reason], sent)

NotifyFailure(s, box, day, err, sent) ==
    Dispatch(s, box, [kind |-> "failure", day |-> day, count |-> 0, text |-> err], sent)

\* ---------------------------------------------- html_generator.PageBuilder
\* Length of the summary kept in an archive entry (summary[:120]).
SummaryCap == 120
\* Length of the archive log (log[:50]).
LogCap == 50

Min(a, b) == IF a < b THEN a ELSE b
Take(s, n) == SubSeq(s, 1, Min(Len(s), n))

\* The output directory: a set of files [day, lang, kind, by], one per
\* name {day}-{lang}.html; by tells which run wrote the file.
WriteFile(fs, day, lang, kind) ==
    {f \in fs : ~(f.day = day /\ f.lang = lang)}
        \cup {[day |-> day, lang |-> lang, kind |-> kind, by |-> "run"]}

\* Faulty variant: the placeholder page named without its language.
BuildEmptyNoLang(fs, day, lang) == WriteFile(fs, day, "", "placeholder")

\* build_empty(day, msg, lang): the placeholder page, written to the
\* name of the day's report.
BuildEmpty(fs, day, lang) == WriteFile(fs, day, lang, "placeholder")

\* build_daily: lang = data.get("lang") or data.get("language") or "zh"
DailyLang(data) == IF data.lang = "" THEN "zh" ELSE data.lang

\* sync_index: data.get("summary", [""])[0] raises IndexError on [].
SyncRaises(data) == Len(data.summary) = 0

\* Faulty variant: the entries of the same day are left in the log.
WithoutNothing(lg, day) == lg

RECURSIVE Without(_, _)
Without(lg, day) ==
    IF lg = <<>> THEN <<>>
    ELSE IF Head(lg).date = day THEN Without(Tail(lg), day)
    ELSE <<Head(lg)>> \o Without(Tail(lg), day)

\* Faulty variant: the log is cut at its front, log[-50:].
SyncLogKeepTail(lg, day, data, lang) ==
    LET all == << [date |-> day, url |-> [day |-> day, lang |-> lang],
                   summary |-> Take(data.summary[1], SummaryCap),
                   lang |-> lang, ts |-> "run"] >> \o Without(lg, day)
    IN  SubSeq(all, Len(all) - Min(Len(all), LogCap) + 1, Len(all))

\* sync_index: the log written to .index.json.
SyncLog(lg, day, data, lang) ==
    Take(<< [date |-> day, url |-> [day |-> day, lang |-> lang],
             summary |-> Take(data.summary[1], SummaryCap),
             lang |-> lang, ts |-> "run"] >> \o Without(lg, day), LogCap)

\* ---------------------------------------------------------------- main
\* sum(len(c.get('items', [])) for c in report.get('categories', []))
\* Faulty variant: a category that has no "items" key is counted as one item.
RECURSIVE CountItemsNoDefault(_)
CountItemsNoDefault(cats) ==
    IF cats = <<>> THEN 0
    ELSE (IF IsPresent(Head(cats).items) THEN Len(Head(cats).items[1]) ELSE 1)
         + CountItemsNoDefault(Tail(cats))

RECURSIVE CountItems(_)
CountItems(cats) ==
    IF cats = <<>> THEN 0
    ELSE Len(Get(Head(cats).items, <<>>)) + CountItems(Tail(cats))

\* ------------------------------------------------------------------ inputs
Str(c) == <<c>>

Entry(ts, link, content, summary) ==
    [ts |-> ts, link |-> link, title |-> Some(Str("T")), id |-> Absent,
     guid |-> Absent, description |-> Absent, summary |-> summary,
     content |-> content, published |-> Absent, updated |-> Absent]

Issue24(day) == <<TextSeg, IssueSeg("yy", day.y - Century, day.m, day.d)>>
Issue2024(day) == <<TextSeg, IssueSeg("yyyy", day.y, day.m, day.d)>>
Issue1924(day) == <<IssueSeg("yyyy", day.y - 100, day.m, day.d)>>

\* Entries of the loader specification: every timestamp with every link.
FetchLinks ==
    {Absent, Some(<<TextSeg>>), Some(Issue24(Day1)), Some(Issue2024(Day1)),
     Some(Issue24(Day2)), Some(Issue1924(Day1))}

FetchEntries ==
    {Entry(ts, link, Some(<< Some(Str("b")) >>), Absent) :
        ts \in {Absent, Some(Day1), Some(Day2)}, link \in FetchLinks}

\* Entries of the pipeline specification: one found by its timestamp, one
\* found by its link alone (its body needs unescaping), one found but
\* without any content, one of another day.
PipeEntries ==
    {Entry(Some(Day1), Some(<<TextSeg>>), Some(<< Some(Str("b")) >>), Absent),
     Entry(Absent, Some(Issue24(Day1)), Absent, Some(EntLt)),
     Entry(Some(Day1), Absent, Some(<<>>), Absent),
     Entry(Some(Day2), Some(Issue2024(Day2)), Some(<< Some(Str("c")) >>), Absent)}

RECURSIVE SeqsUpTo(_, _)
SeqsUpTo(S, n) ==
    IF n = 0 THEN {<<>>}
    ELSE LET shorter == SeqsUpTo(S, n - 1)
         IN  shorter \cup {Append(q, x) : q \in shorter, x \in S}

TargetDates ==
    {DateStr("iso", Day1), DateStr("iso", Day2), DateStr("loose", Day1),
     DateStr("bad", Day1)}

SmtpConfigs == [host : BOOLEAN, sender : BOOLEAN, secret : BOOLEAN, recipient : BOOLEAN]

\* What an earlier run may have left in the output directory.
EarlierReport ==
    [day |-> DateStr("iso", Day1), lang |-> "zh", kind |-> "report", by |-> "earlier"]
EarlierEntry ==
    [date |-> DateStr("iso", Day1), url |-> [day |-> DateStr("iso", Day1), lang |-> "zh"],
     summary |-> Str("o"), lang |-> "zh", ts |-> "earlier"]
NoIndex == [rows |-> <<>>, lang |-> "", by |-> "nobody"]

\* Replies of the oracle to a request for (date, lang).
Cat(n) == [items |-> Some([i \in 1..n |-> [title |-> Str("n")]])]
OracleObjects(date, lang) ==
    { [NoObj EXCEPT !.status = Some("success"), !.date = Some(date), !.lang = Some(lang),
                    !.summary = Some(<<Str("h")>>), !.categories = Some(<<Cat(3), Cat(1)>>)],
      NoObj,
      [NoObj EXCEPT !.status = Some("empty"), !.reason = Some("nothing new")],
      [NoObj EXCEPT !.status = Some("empty")],
      [NoObj EXCEPT !.status = Some("partial"), !.summary = Some(<<Str("h")>>)],
      [NoObj EXCEPT !.date = Some(DateStr("iso", Day2)), !.lang = Some(""),
                    !.summary = Some(<<Str("h")>>),
                    !.categories = Some(<<[items |-> Absent], Cat(2)>>)] }

OracleReplies(date, lang) ==
    {[kind |-> k, obj |-> NoObj] : k \in {"raise", "notjson", "nonobject"}}
        \cup {[kind |-> "object", obj |-> o] : o \in OracleObjects(date, lang)}

\* ------------------------------------------------------------------- state
VARIABLES
    api_key,      \* config.OPENAI_API_KEY is set
    smtp,         \* which of host, sender, secret, recipient are configured
    date_arg,     \* --date, optional
    language,     \* --language
    remote,       \* the entries of the feed at RSS_URL
    pc,           \* where run_pipeline stands
    target_day,   \* target_day, once computed (optional)
    feed,         \* the snapshot pull_feed returned (optional)
    res,          \* what fetch_by_day did
    raw_news,     \* raw_news (optional)
    oracle,       \* the oracle's reply, when it was called (optional)
    report,       \* report (optional)
    html_file,    \* html_file, the name build_daily returned (optional)
    export_ok,    \* whether capture_screenshot returned without raising (optional)
    styles,       \* who wrote css/styles.css
    files,        \* the {day}-{lang}.html files of the output directory
    index_log,    \* .index.json
    index_html,   \* index.html
    pdfs,         \* the exported files
    mails,        \* the SMTP transfers attempted
    trace,        \* the calls made, in order
    exit_code,    \* exit code of the process, once it has ended (optional)
    outcome,      \* the terminal outcomes the run produced
    error         \* the exception that ended the run (optional)

inputs == <<api_key, smtp, date_arg, language, remote>>
locals == <<target_day, feed, res, raw_news, oracle, report, html_file, export_ok>>
disk == <<styles, files, index_log, index_html, pdfs>>
ending == <<mails, exit_code, outcome, error>>
vars == <<inputs, pc, locals, disk, trace, ending>>

NoRes == [kind |-> "unset", idx |-> 0, item |-> <<>>]

InitLocals ==
    /\ target_day = Absent /\ feed = Absent /\ res = NoRes /\ raw_news = Absent
    /\ oracle = Absent /\ report = Absent /\ html_file = Absent /\ export_ok = Absent

InitEnding ==
    /\ mails = <<>> /\ exit_code = Absent /\ outcome = {} /\ error = Absent
    /\ trace = <<>>

Init ==
    /\ api_key \in BOOLEAN
    /\ smtp \in SmtpConfigs
    /\ date_arg \in {Absent} \cup {Some(t) : t \in TargetDates \ {DateStr("iso", Day2)}}
    /\ language \in {"zh", "en"}
    /\ remote \in SeqsUpTo(PipeEntries, MaxPipeFeed)
    /\ pc = "start"
    /\ InitLocals
    /\ \E earlier \in BOOLEAN :
          /\ styles = IF earlier THEN "earlier" ELSE "nobody"
          /\ files = IF earlier THEN {EarlierReport} ELSE {}
          /\ index_log = IF earlier THEN <<EarlierEntry>> ELSE <<>>
          /\ index_html = IF earlier
                          THEN [rows |-> <<EarlierEntry>>, lang |-> "zh", by |-> "earlier"]
                          ELSE NoIndex
    /\ pdfs = {}
    /\ InitEnding

\* ----------------------------------------------------- main.run_pipeline
Target == target_day[1]

\* The normal return of run_pipeline: asyncio.run returns, exit code 0.
Return(kind) ==
    /\ exit_code' = Some(0)
    /\ outcome' = outcome \cup {kind}
    /\ error' = Absent
    /\ pc' = "done"

\* Faulty variant: the handler prints the error and returns.
SysExitForgotten(err) ==
    /\ exit_code' = Some(0)
    /\ outcome' = outcome \cup {"Failed"}
    /\ error' = Some(err)
    /\ pc' = "done"

\* sys.exit(1)
SysExit(err) ==
    /\ exit_code' = Some(1)
    /\ outcome' = outcome \cup {"Failed"}
    /\ error' = Some(err)
    /\ pc' = "done"

\* except Exception as e: notify_failure(target_day, str(e)) when the sink
\* is ready, then sys.exit(1).
Failure(err) ==
    /\ \E sent \in BOOLEAN :
          mails' = IF IsReady(smtp)
                   THEN NotifyFailure(smtp, mails, Target, err, sent)
                   ELSE mails
    /\ SysExit(err)

\* resolve_date(offset): a zero padded date, whichever day it is today.
ResolveDate(today) == DateStr("iso", today)

\* Lines 47-56: the key check, the components, target_day.  PageBuilder()
\* creates the output directories outside the try block.
Start ==
    /\ pc = "start"
    /\ UNCHANGED <<inputs, disk, feed, res, raw_news, oracle, report, html_file,
                   export_ok, mails, trace>>
    /\ \/ /\ ~api_key
          /\ SysExit("OPENAI_API_KEY not found")
          /\ UNCHANGED target_day
       \/ /\ api_key
          /\ SysExit("mkdir")
          /\ UNCHANGED target_day
       \/ /\ api_key
          /\ \E today \in Days :
                target_day' = Some(Get(date_arg, ResolveDate(today)))
          /\ pc' = "fetch"
          /\ UNCHANGED <<exit_code, outcome, error>>

\* Lines 59-62: loader.pull_feed(), which raises RuntimeError when the
\* download or the parse fails.
PullFeed ==
    /\ pc = "fetch"
    /\ trace' = Append(trace, "pull_feed")
    /\ UNCHANGED <<inputs, disk, target_day, res, raw_news, oracle, report,
                   html_file, export_ok>>
    /\ \/ /\ feed' = Some(remote)
          /\ pc' = "resolve"
          /\ UNCHANGED ending
       \/ /\ Failure("Failed to download feed")
          /\ UNCHANGED feed

\* Lines 64-68: loader.fetch_by_day(target_day, feed).
Locate ==
    /\ pc = "resolve"
    /\ trace' = Append(trace, "fetch_by_day")
    /\ res' = FetchByDay(Target, feed[1])
    /\ raw_news' = res'.item
    /\ UNCHANGED <<inputs, disk, target_day, feed, oracle, report, html_file, export_ok>>
    /\ IF res'.kind = "raise"
       THEN Failure("Date format mismatch")
       ELSE /\ pc' = IF res'.kind = "none" THEN "empty_page" ELSE "analyze"
            /\ UNCHANGED ending

\* Lines 68-74: no content found.  io names the first write that fails.
EmptyPage ==
    /\ pc = "empty_page"
    /\ UNCHANGED <<inputs, locals, index_log, index_html, pdfs>>
    /\ \E io \in {"ok", "styles", "page"} :
          /\ trace' = trace \o (IF io = "styles" THEN <<"write_styles">>
                                ELSE <<"write_styles", "build_empty">>)
          /\ styles' = IF io = "styles" THEN styles ELSE "run"
          /\ files' = IF io = "ok"
                      THEN BuildEmpty(files, Target, language)
                      ELSE files
          /\ IF io = "ok"
             THEN /\ \E sent \in BOOLEAN :
                        mails' = IF IsReady(smtp)
                                 THEN NotifyEmpty(smtp, mails, Target,
                                        "RSS feed returned no entries for this date.", sent)
                                 ELSE mails
                  /\ Return("Empty")
             ELSE Failure("write")

\* Faulty variant: the status compared with another spelling.
IsEmptyReportCapital(r) == r.status = "Empty"

\* Line 81: report.get("status") == "empty"
IsEmptyReport(r) == r.status = "empty"

\* Lines 76-85: ContentProcessor(), process_news, the empty answer.
Analyze ==
    /\ pc = "analyze"
    /\ UNCHANGED <<inputs, disk, target_day, feed, res, raw_news, html_file, export_ok>>
    /\ \/ /\ Failure("AI Client initialization failed")
          /\ UNCHANGED <<oracle, report, trace>>
       \/ \E reply \in OracleReplies(Target, language) :
            /\ oracle' = IF CallsOracle(raw_news[1]) THEN Some(reply) ELSE Absent
            /\ trace' = IF CallsOracle(raw_news[1]) THEN Append(trace, "oracle") ELSE trace
            /\ report' = Some(ProcessNews(raw_news[1], Target, language, reply))
            /\ IF IsEmptyReport(report'[1])
               THEN /\ \E sent \in BOOLEAN :
                          mails' = IF IsReady(smtp)
                                   THEN NotifyEmpty(smtp, mails, Target,
                                          Get(report'[1].reason, "AI analysis empty"), sent)
                                   ELSE mails
                    /\ Return("Empty")
               ELSE /\ pc' = "build"
                    /\ UNCHANGED ending

\* Where write_styles() and build_daily(report) stop: the first write
\* that fails, or the IndexError of sync_index.
BuildStop(data, io) ==
    IF io \in {"styles", "report"} THEN io
    ELSE IF SyncRaises(data) THEN "sync"
    ELSE io

\* Faulty variant: an exception of sync_index is swallowed by build_daily
\* and the run goes on to the export.
BuildIgnoresSync ==
    /\ pc = "build"
    /\ UNCHANGED <<inputs, target_day, feed, res, raw_news, oracle, export_ok, pdfs>>
    /\ \E io \in {"ok", "styles", "report", "log", "index"} :
         LET data == [report[1] EXCEPT !.lang = DailyLang(report[1])]
             day == data.date
             stop == BuildStop(data, io)
             newlog == IF stop = "sync" THEN index_log
                       ELSE SyncLog(index_log, day, data, data.lang)
         IN  /\ trace' = trace \o
                    (IF stop = "styles" THEN <<"write_styles">>
                     ELSE IF stop = "report" THEN <<"write_styles", "write_report">>
                     ELSE <<"write_styles", "write_report", "sync_index">>)
             /\ styles' = IF stop = "styles" THEN styles ELSE "run"
             /\ report' = IF stop = "styles" THEN report ELSE Some(data)
             /\ files' = IF stop \in {"styles", "report"} THEN files
                         ELSE WriteFile(files, day, data.lang, "report")
             /\ index_log' = IF stop \in {"index", "ok"} THEN newlog ELSE index_log
             /\ index_html' = IF stop = "ok"
                              THEN [rows |-> newlog, lang |-> data.lang, by |-> "run"]
                              ELSE index_html
             /\ IF stop \in {"styles", "report"}
                THEN /\ Failure("write")
                     /\ UNCHANGED html_file
                ELSE /\ html_file' = Some([day |-> day, lang |-> data.lang])
                     /\ pc' = "export"
                     /\ UNCHANGED ending

\* Lines 87-90: builder.write_styles(), builder.build_daily(report).
Build ==
    /\ pc = "build"
    /\ UNCHANGED <<inputs, target_day, feed, res, raw_news, oracle, export_ok, pdfs>>
    /\ \E io \in {"ok", "styles", "report", "log", "index"} :
         LET data == [report[1] EXCEPT !.lang = DailyLang(report[1])]
             day == data.date
             stop == BuildStop(data, io)
             newlog == SyncLog(index_log, day, data, data.lang)
         IN  /\ trace' = trace \o
                    (IF stop = "styles" THEN <<"write_styles">>
                     ELSE IF stop = "report" THEN <<"write_styles", "write_report">>
                     ELSE <<"write_styles", "write_report", "sync_index">>)
             /\ styles' = IF stop = "styles" THEN styles ELSE "run"
             /\ report' = IF stop = "styles" THEN report ELSE Some(data)
             /\ files' = IF stop \in {"styles", "report"} THEN files
                         ELSE WriteFile(files, day, data.lang, "report")
             /\ index_log' = IF stop \in {"index", "ok"} THEN newlog ELSE index_log
             /\ index_html' = IF stop = "ok"
                              THEN [rows |-> newlog, lang |-> data.lang, by |-> "run"]
                              ELSE index_html
             /\ IF stop = "ok"
                THEN /\ html_file' = Some([day |-> day, lang |-> data.lang])
                     /\ pc' = "export"
                     /\ UNCHANGED ending
                ELSE /\ Failure(IF stop = "sync" THEN "list index out of range" ELSE "write")
                     /\ UNCHANGED html_file

\* capture_screenshot returns at once when the source file is missing.
SourceExists(fs, name) == \E f \in fs : f.day = name.day /\ f.lang = name.lang

\* Faulty variant: the export without its own try block.
ExportPropagates ==
    /\ pc = "export"
    /\ trace' = Append(trace, "export")
    /\ UNCHANGED <<inputs, target_day, feed, res, raw_news, oracle, report, html_file,
                   styles, files, index_log, index_html>>
    /\ \/ /\ export_ok' = Some(TRUE)
          /\ pdfs' = pdfs \cup {[day |-> Target, lang |-> language,
                                  source |-> html_file[1]]}
          /\ pc' = "count"
          /\ UNCHANGED ending
       \/ /\ export_ok' = Some(FALSE)
          /\ UNCHANGED pdfs
          /\ Failure("export")

\* Lines 92-98: the export, whose exception is caught and printed.
Export ==
    /\ pc = "export"
    /\ trace' = Append(trace, "export")
    /\ UNCHANGED <<inputs, target_day, feed, res, raw_news, oracle, report, html_file,
                   styles, files, index_log, index_html, ending>>
    /\ pc' = "count"
    /\ \E ok \in BOOLEAN :
          /\ export_ok' = Some(ok)
          /\ pdfs' = IF ok /\ SourceExists(files, html_file[1])
                     THEN pdfs \cup {[day |-> Target, lang |-> language,
                                      source |-> html_file[1]]}
                     ELSE pdfs

\* Lines 100-106: the item count and the success notification.
Finish ==
    /\ pc = "count"
    /\ UNCHANGED <<inputs, locals, disk, trace>>
    /\ \E sent \in BOOLEAN :
          mails' = IF IsReady(smtp)
                   THEN NotifySuccess(smtp, mails, Target,
                                      CountItems(report[1].categories), sent)
                   ELSE mails
    /\ Return("Published")

Next == Start \/ PullFeed \/ Locate \/ EmptyPage \/ Analyze \/ Build \/ Export \/ Finish

Spec == Init /\ [][Next]_vars

\* ------------------------------------------- the loader called on its own
\* fetch_by_day called on a snapshot, as fetch_rss_content does: every
\* feed of up to MaxFeedLen entries with every target date.
InitFetch ==
    /\ api_key = TRUE
    /\ smtp = [host |-> FALSE, sender |-> FALSE, secret |-> FALSE, recipient |-> FALSE]
    /\ date_arg \in {Some(t) : t \in TargetDates}
    /\ language = "zh"
    /\ remote \in SeqsUpTo(FetchEntries, MaxFeedLen)
    /\ pc = "lib"
    /\ target_day = date_arg
    /\ feed = Some(remote)
    /\ res = NoRes /\ raw_news = Absent
    /\ oracle = Absent /\ report = Absent /\ html_file = Absent /\ export_ok = Absent
    /\ styles = "nobody" /\ files = {} /\ index_log = <<>> /\ index_html = NoIndex
    /\ pdfs = {}
    /\ InitEnding

LibFetchByDay ==
    /\ pc = "lib"
    /\ res' = FetchByDay(Target, feed[1])
    /\ error' = IF res'.kind = "raise" THEN Some("Date format mismatch") ELSE Absent
    /\ pc' = "lib_done"
    /\ UNCHANGED <<inputs, disk, target_day, feed, raw_news, oracle, report, html_file,
                   export_ok, trace, mails, exit_code, outcome>>

NextFetch == LibFetchByDay

SpecFetch == InitFetch /\ [][NextFetch]_vars

\* --------------------------------------- the loader called on a single entry
\* Entries stamped on Day1, with every way of carrying or lacking a body, a
\* summary, a description, an id, a guid and a link.
FormatBodies ==
    {Absent, Some(<<>>), Some(<<Absent>>), Some(<< Some(EmptyStr) >>),
     Some(<< Some(Str("b")) >>), Some(<< Some(EntLt) >>),
     Some(<< Some(Str("b")), Some(Str("c")) >>)}
FormatTexts(c) == {Absent, Some(EmptyStr), Some(Str(c))}
FormatLinks == {Absent, Some(<<>>), Some(<<TextSeg>>)}

FormatEntries ==
    {[ts |-> Some(Day1), link |-> l, title |-> Some(Str("T")), id |-> i, guid |-> g,
      description |-> d, summary |-> s, content |-> b,
      published |-> Absent, updated |-> Absent] :
        l \in FormatLinks, i \in FormatTexts("i"), g \in FormatTexts("g"),
        d \in FormatTexts("d"), s \in FormatTexts("s"), b \in FormatBodies}

InitFormat ==
    /\ api_key = TRUE
    /\ smtp = [host |-> FALSE, sender |-> FALSE, secret |-> FALSE, recipient |-> FALSE]
    /\ date_arg = Some(DateStr("iso", Day1))
    /\ language = "zh"
    /\ remote \in {<<e>> : e \in FormatEntries}
    /\ pc = "lib"
    /\ target_day = date_arg
    /\ feed = Some(remote)
    /\ res = NoRes /\ raw_news = Absent
    /\ oracle = Absent /\ report = Absent /\ html_file = Absent /\ export_ok = Absent
    /\ styles = "nobody" /\ files = {} /\ index_log = <<>> /\ index_html = NoIndex
    /\ pdfs = {}
    /\ InitEnding

SpecFormat == InitFormat /\ [][NextFetch]_vars

\* ------------------------------------------ _parse_url_date called on a url
\* The urls: an /issues/ group with a year of one to five digits, a month
\* of one to three digits and a day, closed by a dash or not, then nothing
\* or a second, well formed group with a two-digit year.
YearDigits == {"0", "2", "4"}
RECURSIVE DigitStrings(_)
DigitStrings(n) ==
    IF n = 0 THEN {<<>>}
    ELSE {Append(s, c) : s \in DigitStrings(n - 1), c \in YearDigits}
UrlYears == UNION {DigitStrings(n) : n \in 1..MaxYearLen}
SecondGroup == IssuesLit \o <<"2", "4", "-", "0", "1", "-", "0", "5", "-", "b">>

UrlParts ==
    [y : UrlYears,
     m : {<<"3">>, <<"0", "3">>, <<"0", "0", "3">>},
     d : {<<"1", "0">>},
     tail : {<<>>, <<"a">>, <<"-", "a">>},
     second : {<<>>, SecondGroup}]

UrlText(u) ==
    <<"h", ":">> \o IssuesLit \o u.y \o <<"-">> \o u.m \o <<"-">> \o u.d \o u.tail
        \o u.second

InitUrl ==
    /\ api_key = TRUE
    /\ smtp = [host |-> FALSE, sender |-> FALSE, secret |-> FALSE, recipient |-> FALSE]
    /\ date_arg = Absent
    /\ language = "zh"
    /\ remote \in UrlParts
    /\ pc = "lib"
    /\ InitLocals
    /\ styles = "nobody" /\ files = {} /\ index_log = <<>> /\ index_html = NoIndex
    /\ pdfs = {}
    /\ InitEnding

\* One call _parse_url_date(url); remote holds the parts of the url and
\* res.item the string returned, Absent for None.
LibParseUrlDate ==
    /\ pc = "lib"
    /\ res' = [kind |-> "url_date", idx |-> 0, item |-> ParseUrlDateText(UrlText(remote))]
    /\ pc' = "lib_done"
    /\ UNCHANGED <<inputs, disk, target_day, feed, raw_news, oracle, report, html_file,
                   export_ok, trace, ending>>

NextUrl == LibParseUrlDate

SpecUrl == InitUrl /\ [][NextUrl]_vars

\* ------------------------------------------- AlertManager called on its own
InitNotify ==
    /\ api_key = TRUE
    /\ smtp \in SmtpConfigs
    /\ date_arg = Some(DateStr("iso", Day1))
    /\ language = "zh"
    /\ remote = <<>>
    /\ pc = "lib"
    /\ target_day = date_arg
    /\ feed = Absent /\ res = NoRes /\ raw_news = Absent
    /\ oracle = Absent /\ report = Absent /\ html_file = Absent /\ export_ok = Absent
    /\ styles = "nobody" /\ files = {} /\ index_log = <<>> /\ index_html = NoIndex
    /\ pdfs = {}
    /\ InitEnding

\* One call of notify_success, notify_empty or notify_failure; res.item
\* holds the value the call returned.
LibNotify ==
    /\ pc = "lib"
    /\ Len(trace) < MaxNotifyCalls
    /\ \E call \in {"notify_success", "notify_empty", "notify_failure"}, sent \in BOOLEAN :
         /\ mails' = CASE call = "notify_success" -> NotifySuccess(smtp, mails, Target, 4, sent)
                       [] call = "notify_empty" -> NotifyEmpty(smtp, mails, Target, "nothing new", sent)
                       [] call = "notify_failure" -> NotifyFailure(smtp, mails, Target, "boom", sent)
         /\ res' = [kind |-> call, idx |-> 0, item |-> Some(DispatchReturns(smtp, sent))]
         /\ trace' = Append(trace, call)
    /\ UNCHANGED <<inputs, disk, pc, target_day, feed, raw_news, oracle, report, html_file,
                   export_ok, exit_code, outcome, error>>

NextNotify == LibNotify

SpecNotify == InitNotify /\ [][NextNotify]_vars

\* ------------------------------------- _sanitize, then the unescape of a text
\* The texts: up to MaxPieces pieces in a row, each a special character, an
\* entity, the tail of an entity or a letter.
Pieces ==
    {<<"&">>, <<"<">>, <<">">>, <<";">>, <<"a">>, EntLt, EntGt, EntAmp,
     <<"l", "t", ";">>, <<"a", "m", "p", ";">>, <<"&", "a", "m", "p">>}

RECURSIVE Flatten(_)
Flatten(ps) == IF ps = <<>> THEN <<>> ELSE Head(ps) \o Flatten(Tail(ps))

EscapeTexts == {Flatten(ps) : ps \in SeqsUpTo(Pieces, MaxPieces)}

InitEscape ==
    /\ api_key = TRUE
    /\ smtp = [host |-> FALSE, sender |-> FALSE, secret |-> FALSE, recipient |-> FALSE]
    /\ date_arg = Absent
    /\ language = "zh"
    /\ remote \in EscapeTexts
    /\ pc = "lib"
    /\ InitLocals
    /\ styles = "nobody" /\ files = {} /\ index_log = <<>> /\ index_html = NoIndex
    /\ pdfs = {}
    /\ InitEnding

\* _sanitize(remote); res.item holds the escaped text.
LibSanitize ==
    /\ pc = "lib"
    /\ res' = [kind |-> "sanitize", idx |-> 0, item |-> Some(Sanitize(remote))]
    /\ pc' = "escaped"
    /\ UNCHANGED <<inputs, disk, target_day, feed, raw_news, oracle, report, html_file,
                   export_ok, trace, ending>>

\* Line 120 of _format_item on the escaped text; raw_news holds the result.
LibUnescape ==
    /\ pc = "escaped"
    /\ raw_news' = Some(Unescape(res.item[1]))
    /\ pc' = "lib_done"
    /\ UNCHANGED <<inputs, disk, target_day, feed, res, oracle, report, html_file,
                   export_ok, trace, ending>>

NextEscape == LibSanitize \/ LibUnescape

SpecEscape == InitEscape /\ [][NextEscape]_vars

\* ------------------- get_latest_timestamp and get_available_range on a feed
InitInfo ==
    /\ api_key = TRUE
    /\ smtp = [host |-> FALSE, sender |-> FALSE, secret |-> FALSE, recipient |-> FALSE]
    /\ date_arg = Absent
    /\ language = "zh"
    /\ remote \in SeqsUpTo(FetchEntries, MaxFeedLen)
    /\ pc = "lib"
    /\ target_day = Absent
    /\ feed = Some(remote)
    /\ res = NoRes /\ raw_news = Absent
    /\ oracle = Absent /\ report = Absent /\ html_file = Absent /\ export_ok = Absent
    /\ styles = "nobody" /\ files = {} /\ index_log = <<>> /\ index_html = NoIndex
    /\ pdfs = {}
    /\ InitEnding

\* get_latest_timestamp(feed); res.item holds the string returned, or None.
LibGetLatestTimestamp ==
    /\ pc = "lib"
    /\ res' = [kind |-> "latest", idx |-> 0, item |-> GetLatestTimestamp(feed[1])]
    /\ pc' = "lib_done"
    /\ UNCHANGED <<inputs, disk, target_day, feed, raw_news, oracle, report, html_file,
                   export_ok, trace, ending>>

\* get_available_range(feed); res.item holds the pair returned.
LibGetAvailableRange ==
    /\ pc = "lib"
    /\ res' = [kind |-> "range", idx |-> 0, item |-> GetAvailableRange(feed[1])]
    /\ pc' = "lib_done"
    /\ UNCHANGED <<inputs, disk, target_day, feed, raw_news, oracle, report, html_file,
                   export_ok, trace, ending>>

NextInfo == LibGetLatestTimestamp \/ LibGetAvailableRange

SpecInfo == InitInfo /\ [][NextInfo]_vars

\* ---------------------------------------------- sync_index called on its own
\* HTMLGenerator.update_index(d, r, lang) hands its arguments to sync_index.

\* Fifty and more distinct days for the archive, as ISO date strings.
ArchiveDay(n) ==
    DateStr("iso", [y |-> 2023, m |-> 1 + ((n - 1) \div 28), d |-> 1 + ((n - 1) % 28)])

\* A log as earlier runs left it: n entries, the latest day at the front.
EarlierLog(n) ==
    [k \in 1..n |->
        [date |-> ArchiveDay(n + 1 - k),
         url |-> [day |-> ArchiveDay(n + 1 - k), lang |-> "zh"],
         summary |-> Str("o"), lang |-> "zh", ts |-> "earlier"]]

SyncDays == {ArchiveDay(1), ArchiveDay(LogCap - 1), ArchiveDay(LogCap),
             ArchiveDay(LogCap + 1), ArchiveDay(LogCap + 2)}
SyncData == [summary : {<<>>, <<Str("h")>>, <<Str("k"), Str("h")>>}]

InitSync ==
    /\ api_key = TRUE
    /\ smtp = [host |-> FALSE, sender |-> FALSE, secret |-> FALSE, recipient |-> FALSE]
    /\ date_arg = Absent
    /\ language = "zh"
    /\ remote = <<>>
    /\ pc = "lib"
    /\ InitLocals
    /\ styles = "nobody" /\ files = {} /\ pdfs = {}
    /\ index_log \in {EarlierLog(0), EarlierLog(LogCap - 1), EarlierLog(LogCap)}
    /\ index_html = [rows |-> index_log, lang |-> "zh", by |-> "earlier"]
    /\ InitEnding

SyncCalls == Cardinality({k \in DOMAIN trace : trace[k] = "sync_index"})

\* One call sync_index(day, data, lang); target_day, language and report
\* keep the arguments of the latest call, error the exception it raised.
LibSyncIndex ==
    /\ pc = "lib"
    /\ SyncCalls < MaxSyncs
    /\ \E day \in SyncDays, data \in SyncData, lang \in {"zh", "en"},
          io \in {"ok", "log", "index"} :
         LET stop == BuildStop(data, io)
             newlog == SyncLog(index_log, day, data, lang)
         IN  /\ target_day' = Some(day)
             /\ language' = lang
             /\ report' = Some(data)
             /\ index_log' = IF stop \in {"index", "ok"} THEN newlog ELSE index_log
             /\ index_html' = IF stop = "ok"
                              THEN [rows |-> newlog, lang |-> lang, by |-> "run"]
                              ELSE index_html
             /\ error' = IF stop = "ok" THEN Absent
                         ELSE IF stop = "sync" THEN Some("list index out of range")
                         ELSE Some("write")
             /\ trace' = trace \o (IF stop = "ok" THEN <<"sync_index">>
                                   ELSE <<"sync_index", "raised">>)
    /\ UNCHANGED <<api_key, smtp, date_arg, remote, pc, feed, res, raw_news, oracle,
                   html_file, export_ok, styles, files, pdfs, mails, exit_code, outcome>>

NextSync == LibSyncIndex

SpecSync == InitSync /\ [][NextSync]_vars

\* ================================================================= claims
Done == pc = "done"
Ready == IsReady(smtp)
MailKinds == {mails[k].kind : k \in 1..Len(mails)}
InTrace(ev) == \E k \in 1..Len(trace) : trace[k] = ev
WrittenByRun == {f \in files : f.by = "run"}

\* The oracle was called and failed: the request raised, or its text was
\* no JSON object.
OracleFailed ==
    IsPresent(oracle) /\ oracle[1].kind \in {"raise", "notjson", "nonobject"}

C2_OneOutcome ==
    /\ Done =>
        /\ Cardinality(outcome) = 1
        /\ outcome \subseteq {"Published", "Empty", "Failed"}
        /\ exit_code \in {Some(0), Some(1)}
        /\ (exit_code = Some(0)) <=> (outcome \in {{"Published"}, {"Empty"}})
        /\ (exit_code = Some(1)) <=> (outcome = {"Failed"})
    /\ ~Done => (outcome = {} /\ exit_code = Absent)

C2_Witness ==
    /\ Done /\ outcome = {"Failed"} /\ exit_code = Some(1)
    /\ IsPresent(report) /\ error = Some("list index out of range")

\* ----------------------------------------------------- fetch_by_day alone
LibDone == pc = "lib_done"
Snapshot == feed[1]
IsoTarget == Target.fmt = "iso"

\* The entry's link holds an /issues/ group that spells the day, with the
\* year in two digits or in four.
LinkEncodes(e, day) ==
    /\ IsPresent(e.link)
    /\ \E k \in 1..Len(e.link[1]) :
          LET g == e.link[1][k]
          IN  /\ g.m = day.m /\ g.d = day.d
              /\ \/ g.form = "yy" /\ g.y + 2000 = day.y
                 \/ g.form = "yyyy" /\ g.y = day.y

\* The entry's publish timestamp falls on the day.
StampedOn(e, day) == e.ts = Some(day)

MatchesDay(e, day) == StampedOn(e, day) \/ LinkEncodes(e, day)

\* C3 as stated: whenever the feed holds an entry whose link encodes the
\* target date, fetch_by_day returns the record of that entry.
C3_LinkEntryReturned ==
    (LibDone /\ IsoTarget) =>
        \A i \in 1..Len(Snapshot) :
            LinkEncodes(Snapshot[i], DayOf(Target)) =>
                (res.kind = "item" /\ res.item = Some(FormatItem(Snapshot[i])))

\* C3, amended: whenever the feed holds an entry whose link encodes the
\* target date, fetch_by_day returns a record, whatever that entry's
\* timestamp is; it is the record of that entry when no earlier entry of
\* the feed matches the target date by timestamp or by link, and the record
\* of the first such earlier entry otherwise.
C3_LinkEntryFound ==
    (LibDone /\ IsoTarget) =>
        \A i \in 1..Len(Snapshot) :
            LinkEncodes(Snapshot[i], DayOf(Target)) =>
                /\ res.kind = "item"
                /\ res.idx <= i
                /\ res.item = Some(FormatItem(Snapshot[res.idx]))
                /\ MatchesDay(Snapshot[res.idx], DayOf(Target))
                /\ (\A j \in 1..(i - 1) : ~MatchesDay(Snapshot[j], DayOf(Target)))
                      => res.idx = i

C3_Witness ==
    /\ LibDone /\ IsoTarget /\ Len(Snapshot) = 2
    /\ Snapshot[1].ts = Absent /\ ~LinkEncodes(Snapshot[1], DayOf(Target))
    /\ Snapshot[2].ts = Some(Day2) /\ Target = DateStr("iso", Day1)
    /\ LinkEncodes(Snapshot[2], Day1)
    /\ res.kind = "item" /\ res.idx = 2

\* C4: fetch_by_day returns the first entry, in feed order, that matches
\* the target date by its timestamp or by its link: no earlier entry
\* matches by either rule, so an earlier entry matching by link alone wins
\* over a later one matching by timestamp.
C4_FirstMatchWins ==
    (LibDone /\ IsoTarget) =>
        /\ res.kind \in {"item", "none"}
        /\ res.kind = "item" =>
              /\ res.idx \in 1..Len(Snapshot)
              /\ MatchesDay(Snapshot[res.idx], DayOf(Target))
              /\ \A j \in 1..(res.idx - 1) : ~MatchesDay(Snapshot[j], DayOf(Target))
              /\ res.item = Some(FormatItem(Snapshot[res.idx]))
        /\ res.kind = "none" =>
              \A j \in 1..Len(Snapshot) : ~MatchesDay(Snapshot[j], DayOf(Target))

C4_Witness ==
    /\ LibDone /\ IsoTarget /\ Len(Snapshot) = 2
    /\ LinkEncodes(Snapshot[1], DayOf(Target)) /\ ~StampedOn(Snapshot[1], DayOf(Target))
    /\ StampedOn(Snapshot[2], DayOf(Target)) /\ ~LinkEncodes(Snapshot[2], DayOf(Target))
    /\ res.kind = "item" /\ res.idx = 1

\* C5: when no entry of the feed matches the target date by timestamp or
\* by link (the empty feed included), fetch_by_day returns None and raises
\* nothing.
C5_NoMatchIsNone ==
    (LibDone /\ Target.fmt # "bad"
        /\ \A j \in 1..Len(Snapshot) : ~MatchesDay(Snapshot[j], DayOf(Target)))
    => (res.kind = "none" /\ res.item = Absent /\ error = Absent)

C5_Witness ==
    /\ LibDone /\ IsoTarget /\ Len(Snapshot) = 2
    /\ \A j \in 1..2 : ~MatchesDay(Snapshot[j], DayOf(Target))
    /\ \E j \in 1..2 : IsPresent(Snapshot[j].ts) /\ \E d \in Days : LinkEncodes(Snapshot[j], d)
    /\ res.kind = "none"

\* ------------------------------------------------------- the pipeline run
NotFound == res.kind = "none"
OracleSaidEmpty == IsPresent(report) /\ report[1].status = "empty"
Placeholder == [day |-> Target, lang |-> language, kind |-> "placeholder", by |-> "run"]
IndexUntouched ==
    /\ \A k \in 1..Len(index_log) : index_log[k].ts = "earlier"
    /\ index_html.by # "run"
NoExport == pdfs = {} /\ export_ok = Absent /\ ~InTrace("export")

\* C6 as stated: a run whose fetch_by_day returned NotFound, or whose
\* classification has status empty, ends Empty with exit code 0.
C6_EmptyNeverFails ==
    (Done /\ (NotFound \/ OracleSaidEmpty)) =>
        (outcome = {"Empty"} /\ exit_code = Some(0))

\* C6, amended: a run whose classification has status empty ends Empty
\* with exit code 0; a run whose fetch_by_day returned NotFound ends Empty
\* with exit code 0 unless writing the stylesheet or the placeholder page
\* fails, and then it ends Failed with that write error.
C6_EmptyUnlessWriteFails ==
    /\ (Done /\ OracleSaidEmpty) =>
          (outcome = {"Empty"} /\ exit_code = Some(0) /\ error = Absent)
    /\ (Done /\ NotFound) =>
          \/ outcome = {"Empty"} /\ exit_code = Some(0) /\ error = Absent
          \/ /\ outcome = {"Failed"} /\ error = Some("write")
             /\ Placeholder \notin files

C6_Witness ==
    /\ Done /\ OracleSaidEmpty /\ IsPresent(oracle) /\ outcome = {"Empty"}
    /\ exit_code = Some(0) /\ Ready

\* C7 as stated: an Empty exit writes no dated report file, leaves the
\* archive log and index.html alone, runs no export, and calls
\* notify_empty exactly when the sink is ready.
C7_EmptyWritesNothing ==
    (Done /\ outcome = {"Empty"}) =>
        /\ WrittenByRun = {}
        /\ IndexUntouched
        /\ NoExport
        /\ Ready => (Len(mails) = 1 /\ mails[1].kind = "empty")
        /\ ~Ready => mails = <<>>

\* C7, amended: an Empty exit never runs build_daily or the export and
\* leaves the archive log and index.html alone; when the oracle's status
\* is empty it writes no file at all, and when fetch_by_day returned
\* NotFound it writes the placeholder page to {target_day}-{language}.html,
\* over any report of that name; notify_empty is called exactly when the
\* sink is ready.
C7_EmptyWritesPlaceholderOnly ==
    (Done /\ outcome = {"Empty"}) =>
        /\ IndexUntouched
        /\ NoExport
        /\ ~InTrace("write_report") /\ ~InTrace("sync_index")
        /\ OracleSaidEmpty => (WrittenByRun = {} /\ styles # "run")
        /\ NotFound => (WrittenByRun = {Placeholder} /\ styles = "run")
        /\ \A f \in files : f.by = "earlier" =>
              ~(f.day = Target /\ f.lang = language /\ NotFound)
        /\ Ready => (Len(mails) = 1 /\ mails[1].kind = "empty" /\ mails[1].day = Target)
        /\ ~Ready => mails = <<>>

C7_Witness ==
    /\ Done /\ outcome = {"Empty"} /\ NotFound /\ Ready
    /\ Placeholder \in files /\ index_log = <<EarlierEntry>>
    /\ Target = EarlierReport.day /\ language = EarlierReport.lang

\* C8: every ended run, a run that failed before the fetch stage included,
\* has made exactly one notification attempt when the sink is ready and
\* none when it is not.
C8_OneNotificationPerRun ==
    Done => /\ Ready => Len(mails) = 1
            /\ ~Ready => Len(mails) = 0

\* C9: a --date that is no YYYY-MM-DD date is rejected before any stage
\* runs: no feed fetched, no oracle call, nothing written.
BadDate == IsPresent(date_arg) /\ date_arg[1].fmt = "bad"

C9_BadDateRejectedFirst ==
    BadDate =>
        /\ ~InTrace("pull_feed") /\ feed = Absent
        /\ oracle = Absent /\ ~InTrace("oracle")
        /\ WrittenByRun = {} /\ IndexUntouched

\* C10: when the export fails after build_daily has succeeded, the run
\* still ends Published with exit code 0, and notify_success is called
\* with the item count when the sink is ready.
C10_ExportFailureSwallowed ==
    export_ok = Some(FALSE) =>
        /\ IsPresent(html_file) /\ error = Absent
        /\ pc \in {"count", "done"}
        /\ Done =>
            /\ outcome = {"Published"}
            /\ exit_code = Some(0)
            /\ Ready => /\ Len(mails) = 1
                        /\ mails[1].kind = "success"
                        /\ mails[1].day = Target
                        /\ mails[1].count = CountItems(report[1].categories)
            /\ ~Ready => mails = <<>>

C10_Witness ==
    /\ Done /\ export_ok = Some(FALSE) /\ Ready /\ outcome = {"Published"}
    /\ Len(mails) = 1 /\ mails[1].count = 4 /\ pdfs = {}

\* The items of a category list, each named by its category and its place in it.
ItemsOf(cats) ==
    UNION {{<<c, i>> : i \in DOMAIN Get(cats[c].items, <<>>)} : c \in DOMAIN cats}

\* C11: in a run that ends Published, the count handed to notify_success is
\* the number of items of all categories of the report together; a category
\* that has no item list adds nothing.
C11_CountIsSumOfItems ==
    (Done /\ outcome = {"Published"} /\ Ready) =>
        /\ Len(mails) = 1
        /\ mails[1].kind = "success"
        /\ mails[1].count = Cardinality(ItemsOf(report[1].categories))

C11_Witness ==
    /\ Done /\ outcome = {"Published"} /\ Ready
    /\ Len(report[1].categories) = 2
    /\ ~IsPresent(report[1].categories[1].items)
    /\ Len(report[1].categories[2].items[1]) = 2
    /\ mails[1].kind = "success" /\ mails[1].count = 2

\* --------------------------------------------------------- sync_index alone
\* The latest call of sync_index returned without raising.
SyncReturned == trace # <<>> /\ trace[Len(trace)] = "sync_index"
EntriesOf(lg, day) == {k \in DOMAIN lg : lg[k].date = day}

\* C12: once sync_index(d, data, lang) has returned, the log holds one entry
\* for d and no more, that entry is the first of the log and it is made of
\* the arguments of that call; so after two calls for the same d the one
\* entry for d carries what the second call was given.
C12_OneEntryPerDay ==
    SyncReturned =>
        /\ Cardinality(EntriesOf(index_log, target_day[1])) = 1
        /\ index_log[1].date = target_day[1]
        /\ index_log[1].url = [day |-> target_day[1], lang |-> language]
        /\ index_log[1].lang = language
        /\ index_log[1].summary = report[1].summary[1]
        /\ index_log[1].ts = "run"
        /\ index_html.rows = index_log

\* Two calls for one day, both returned, the second with another summary
\* and language than the only entry the first could have left.
C12_Witness ==
    /\ trace = <<"sync_index", "sync_index">>
    /\ Len(index_log) = LogCap
    /\ target_day = Some(ArchiveDay(LogCap + 1))
    /\ index_log[2].date = ArchiveDay(LogCap - 1) /\ index_log[2].ts = "earlier"
    /\ index_log[1].summary = Str("k") /\ index_log[1].lang = "en"

\* C13: the log never holds more than 50 entries, and a call for a day the
\* full log does not hold yet drops the last entry of the log and no other.
C13_CapFifty ==
    /\ [](Len(index_log) <= LogCap)
    /\ [][(/\ Len(index_log) = LogCap
           /\ trace' # trace /\ SyncReturned'
           /\ EntriesOf(index_log, target_day'[1]) = {})
          => /\ Len(index_log') = LogCap
             /\ index_log'[1].date = target_day'[1]
             /\ Tail(index_log') = SubSeq(index_log, 1, LogCap - 1)]_vars

\* The full log of fifty days after a call for a fifty-first day.
C13_Witness ==
    /\ trace = <<"sync_index">>
    /\ target_day = Some(ArchiveDay(LogCap + 1))
    /\ Len(index_log) = LogCap
    /\ index_log[1].date = ArchiveDay(LogCap + 1)
    /\ Tail(index_log) = SubSeq(EarlierLog(LogCap), 1, LogCap - 1)
    /\ EntriesOf(index_log, ArchiveDay(1)) = {}

\* ------------------------------------------------------ _format_item alone
\* The entry the record was made from, and the record.
Matched == Snapshot[res.idx]
Record == res.item[1]
Chars == {"T", "b", "c", "d", "g", "i", "s", "&", "l", "t", "a", "m", "p", ";", "<", ">"}

\* The structured body is the list entry.content; it is there when the
\* entry has the attribute and the list is not empty, and its text is the
\* value of the first object of the list, "" when that object has none.
HasBody(e) == IsPresent(e.content) /\ e.content[1] # <<>>
BodyText(e) == IF IsPresent(e.content[1][1]) THEN e.content[1][1][1] ELSE EmptyStr

\* C14: the content of the record is the unescaped text of the structured
\* body when the entry has a body that is not empty, else the unescaped
\* summary when the entry has a summary, else the unescaped description,
\* "" when it has none; with both a body and a summary it is the body; and
\* it is a string in every case.
C14_ContentPrecedence ==
    (LibDone /\ res.kind = "item") =>
        /\ HasBody(Matched) => Record.content = Unescape(BodyText(Matched))
        /\ (~HasBody(Matched) /\ IsPresent(Matched.summary))
              => Record.content = Unescape(Matched.summary[1])
        /\ (~HasBody(Matched) /\ ~IsPresent(Matched.summary) /\ IsPresent(Matched.description))
              => Record.content = Unescape(Matched.description[1])
        /\ (~HasBody(Matched) /\ ~IsPresent(Matched.summary) /\ ~IsPresent(Matched.description))
              => Record.content = EmptyStr
        /\ Record.content \in Seq(Chars)

C14_Witness ==
    /\ LibDone /\ res.kind = "item"
    /\ Matched.content = Some(<< Some(Str("b")) >>)
    /\ Matched.summary = Some(Str("s")) /\ Matched.description = Some(Str("d"))
    /\ Record.content = Str("b")

\* The first of the entry's id, guid and link that is not empty, "" when
\* all three are empty or missing.
FirstNonEmpty(e) ==
    IF Get(e.id, <<>>) # <<>> THEN e.id[1]
    ELSE IF Get(e.guid, <<>>) # <<>> THEN e.guid[1]
    ELSE Get(e.link, <<>>)

\* C15 as stated: the guid of every record returned by fetch_by_day is not
\* empty, and it is the first of the entry's id, guid and link that is not
\* empty.
C15_GuidNonEmpty ==
    (LibDone /\ res.kind = "item") =>
        /\ Record.guid # <<>>
        /\ Record.guid = FirstNonEmpty(Matched)

\* --------------------------------------------------- _parse_url_date alone
\* The first group of the url is one the patterns accept: a month of two
\* digits and a closing dash.
WellFormed(u) == Len(u.m) = 2 /\ u.tail # <<>> /\ Head(u.tail) = "-"
Spelled(y, u) == y \o <<"-">> \o u.m \o <<"-">> \o u.d

\* C16: a well formed group with a two-digit year YY gives 20YY-MM-DD; a
\* well formed group with a four-digit year, in a url without two-digit
\* group, gives that year unchanged; and a url whose only group has a year
\* of three digits or more never gives a date made of two of its digits:
\* the result is the four-digit date or None.
C16_YearExpansion ==
    LibDone =>
        /\ (WellFormed(remote) /\ Len(remote.y) = 2)
              => res.item = Some(Spelled(<<"2", "0">> \o remote.y, remote))
        /\ (WellFormed(remote) /\ Len(remote.y) = 4 /\ remote.second = <<>>)
              => res.item = Some(Spelled(remote.y, remote))
        /\ (Len(remote.y) > 2 /\ remote.second = <<>>)
              => \/ res.item = Absent
                 \/ Len(remote.y) = 4 /\ res.item = Some(Spelled(remote.y, remote))

C16_Witness ==
    /\ LibDone
    /\ remote.y = <<"2", "0", "2", "4">> /\ WellFormed(remote) /\ remote.second = <<>>
    /\ res.item = Some(<<"2", "0", "2", "4", "-", "0", "3", "-", "1", "0">>)

\* ------------------------------------------------------ AlertManager alone
AllConfigured == smtp.host /\ smtp.sender /\ smtp.secret /\ smtp.recipient

\* C17: with host, sender, secret and recipient all configured every
\* notify call attempts one SMTP transfer and returns whether it went
\* through; with any of the four missing no call attempts a transfer and
\* every call returns False.
C17_ReadyIffAllFour ==
    /\ AllConfigured =>
          /\ Len(mails) = Len(trace)
          /\ trace # <<>> => res.item = Some(mails[Len(mails)].delivered)
    /\ ~AllConfigured =>
          /\ mails = <<>>
          /\ trace # <<>> => res.item = Some(FALSE)

C17_Witness ==
    /\ smtp = [host |-> TRUE, sender |-> TRUE, secret |-> TRUE, recipient |-> FALSE]
    /\ trace = <<"notify_success", "notify_failure">>
    /\ mails = <<>> /\ res.item = Some(FALSE)

\* ------------------------------------------------ the pipeline run, again
\* C18 as stated: the classification process_news returns has the status
\* "success" or the status "empty", whatever the oracle answered.
C18_StatusIsEnumerated ==
    IsPresent(report) => report[1].status \in {"success", "empty"}

\* The stage each call of the run belongs to: Fetch 1, Resolve 2, Analyze 3,
\* Publish 4, the export 5; the notification is the mail sent at the end.
StageOf(ev) ==
    CASE ev = "pull_feed" -> 1
      [] ev = "fetch_by_day" -> 2
      [] ev = "oracle" -> 3
      [] ev \in {"write_styles", "build_empty", "write_report", "sync_index"} -> 4
      [] ev = "export" -> 5

\* What each failed stage leaves behind.
FetchFailed == InTrace("pull_feed") /\ feed = Absent
ResolveFailed == res.kind = "raise"
AnalyzeFailed == error = Some("AI Client initialization failed")
PublishFailed ==
    /\ InTrace("write_styles") /\ ~InTrace("build_empty")
    /\ index_html.by # "run"
PublishedNothing ==
    /\ ~InTrace("write_styles") /\ WrittenByRun = {} /\ styles # "run"
    /\ index_html.by # "run"

\* C19: the calls of a run are made in the order of the stages and a mail
\* is sent only as the last step; a failed stage ends the run as Failed at
\* once: after a failed Fetch, Resolve or Analyze there is no later call,
\* so no oracle call after a failed Fetch or Resolve and nothing published;
\* after a failed Publish there is no export and no success notification.
C19_StagesInOrder ==
    /\ \A i, j \in DOMAIN trace : i < j => StageOf(trace[i]) <= StageOf(trace[j])
    /\ mails # <<>> => Done
    /\ (FetchFailed \/ ResolveFailed \/ AnalyzeFailed \/ PublishFailed) =>
          /\ Done /\ outcome = {"Failed"}
          /\ MailKinds \subseteq {"failure"}
          /\ ~InTrace("export") /\ pdfs = {} /\ html_file = Absent
    /\ FetchFailed => (trace = <<"pull_feed">> /\ oracle = Absent /\ PublishedNothing)
    /\ ResolveFailed =>
          (trace = <<"pull_feed", "fetch_by_day">> /\ oracle = Absent /\ PublishedNothing)
    /\ AnalyzeFailed => (~InTrace("oracle") /\ report = Absent /\ PublishedNothing)

\* A Publish stage that failed in sync_index, after the report was written.
C19_Witness ==
    /\ Done /\ PublishFailed /\ Ready
    /\ trace = <<"pull_feed", "fetch_by_day", "oracle", "write_styles", "write_report",
                 "sync_index">>
    /\ WrittenByRun # {}
    /\ outcome = {"Failed"} /\ MailKinds = {"failure"}

\* C20 as stated: a classification of status success with the analyzer's
\* defaults, an empty summary list among them, is published: unless a file
\* write fails, the run ends Published and the log holds the entry of the
\* report's date, written by this run.
C20_DefaultsArePublished ==
    (Done /\ IsPresent(report) /\ report[1].status = "success" /\ error # Some("write")) =>
        /\ outcome = {"Published"}
        /\ IsPresent(html_file)
        /\ index_log # <<>>
        /\ index_log[1].date = report[1].date /\ index_log[1].ts = "run"

\* The name {target_day}-{language} the run was asked to publish under.
RunName == [day |-> Target, lang |-> language]

\* C21 as stated: in a run that ends Published the report file, the first
\* entry of the log and the exported PDF all carry the target date and the
\* requested language, whatever date and lang the classification holds.
C21_FiledUnderRun ==
    (Done /\ outcome = {"Published"}) =>
        /\ html_file = Some(RunName)
        /\ [day |-> Target, lang |-> language, kind |-> "report", by |-> "run"] \in files
        /\ index_log[1].date = Target /\ index_log[1].lang = language
        /\ index_log[1].url = RunName
        /\ \A p \in pdfs : p.day = Target /\ p.lang = language /\ p.source = RunName

\* ------------------------------------------------- the unescape round trip
\* The escaped text holds no bare special character: every & opens one of
\* the three entities.
OnlyEntities(s) ==
    \A k \in DOMAIN s :
        /\ s[k] \notin {"<", ">"}
        /\ s[k] = "&" => (IsPrefixAt(s, k, EntLt) \/ IsPrefixAt(s, k, EntGt)
                            \/ IsPrefixAt(s, k, EntAmp))

\* C22: unescaping the escaped form of a text gives the text back, for
\* every text: each entity is decoded once and what a decoding produces is
\* not decoded again, so the escaped form &amp;lt; of &lt; gives &lt;.
C22_UnescapeInvertsSanitize ==
    /\ pc \in {"escaped", "lib_done"} => OnlyEntities(res.item[1])
    /\ LibDone => raw_news = Some(remote)

C22_Witness ==
    /\ LibDone /\ remote = EntLt
    /\ res.item = Some(<<"&", "a", "m", "p", ";", "l", "t", ";">>)
    /\ raw_news = Some(EntLt)

\* --------------------------- get_latest_timestamp and get_available_range
\* The date an entry yields by its link, by its timestamp, or not at all.
LinkDate(e) == IF IsPresent(e.link) THEN ParseUrlDate(e.link[1]) ELSE Absent
StampDate(e) == IF IsPresent(e.ts) THEN Some(DateStr("iso", e.ts[1])) ELSE Absent
Yields(e) == IsPresent(LinkDate(e)) \/ IsPresent(StampDate(e))
LatestDone == LibDone /\ res.kind = "latest"

\* C23 as stated: the result is the link date of the first entry of the
\* feed that yields a date, that entry's timestamp date when it has no link
\* date, and None only when no entry of the feed yields a date.
C23_FirstYieldingEntry ==
    LatestDone =>
        /\ (\A k \in DOMAIN Snapshot : ~Yields(Snapshot[k])) <=> res.item = Absent
        /\ \A k \in DOMAIN Snapshot :
              (Yields(Snapshot[k]) /\ \A j \in 1..(k - 1) : ~Yields(Snapshot[j]))
                 => res.item = (IF IsPresent(LinkDate(Snapshot[k]))
                                THEN LinkDate(Snapshot[k]) ELSE StampDate(Snapshot[k]))

\* C23, amended: get_latest_timestamp looks at the first entry of the feed
\* only: it returns that entry's link date when its link yields one, else
\* that entry's timestamp date, and None when the feed is empty or the
\* first entry yields neither, whatever the later entries hold.
C23_TopEntryOnly ==
    LatestDone =>
        /\ Snapshot = <<>> => res.item = Absent
        /\ Snapshot # <<>> =>
              /\ IsPresent(LinkDate(Snapshot[1])) => res.item = LinkDate(Snapshot[1])
              /\ ~IsPresent(LinkDate(Snapshot[1])) => res.item = StampDate(Snapshot[1])
              /\ ~Yields(Snapshot[1]) => res.item = Absent

\* A first entry without link date and timestamp before one with a link date.
C23_Witness ==
    /\ LatestDone /\ Len(Snapshot) = 2
    /\ ~Yields(Snapshot[1]) /\ IsPresent(LinkDate(Snapshot[2]))
    /\ res.item = Absent

\* The days of the calendar in their order, and the link dates of a feed.
DayNumber(ds) == ds.y * 10000 + ds.m * 100 + ds.d
LinkDates == {LinkDate(Snapshot[k])[1] :
                 k \in {j \in DOMAIN Snapshot : IsPresent(LinkDate(Snapshot[j]))}}
RangeDone == LibDone /\ res.kind = "range"

\* C24: get_available_range returns (None, None) exactly when no entry of
\* the feed has a link date; otherwise it returns the earliest and the
\* latest day, by the calendar, among the link dates of all entries, the
\* first not after the second, and an entry that has a timestamp but no
\* link date adds nothing.
C24_RangeOfLinkDates ==
    RangeDone =>
        /\ (LinkDates = {}) <=> (res.item = <<Absent, Absent>>)
        /\ LinkDates # {} =>
              /\ IsPresent(res.item[1]) /\ IsPresent(res.item[2])
              /\ res.item[1][1] \in LinkDates /\ res.item[2][1] \in LinkDates
              /\ \A x \in LinkDates :
                    /\ DayNumber(res.item[1][1]) <= DayNumber(x)
                    /\ DayNumber(x) <= DayNumber(res.item[2][1])
              /\ DayNumber(res.item[1][1]) <= DayNumber(res.item[2][1])

\* The later day first in the feed, the earlier one in another century
\* and on an entry stamped with a third day.
C24_Witness ==
    /\ RangeDone /\ Len(Snapshot) = 2
    /\ LinkDate(Snapshot[1]) = Some(DateStr("iso", Day2))
    /\ Snapshot[2].link = Some(Issue1924(Day1)) /\ Snapshot[2].ts = Some(Day2)
    /\ res.item = << Some(DateStr("iso", [y |-> 1924, m |-> 3, d |-> 10])),
                     Some(DateStr("iso", Day2)) >>

====
